---- MODULE Spec2Model ----
(***************************************************************************)
(* Model of triko-services: StorageService (src/storage-service/index.js)  *)
(* over AsyncStorage, and SessionService (src/session-service/index.js).   *)
(*                                                                         *)
(* Every JavaScript value is a record [t, f, l]: t is its type, f its      *)
(* named properties (a function from property names to integers) and l    *)
(* its indexed elements.  An array may carry named properties besides its  *)
(* elements (data.ui_code = uuid() on an array), which JSON.stringify      *)
(* omits.  Field values and identifiers are integers; the identifier 0     *)
(* stands for a falsy identifier (undefined or the empty string).         *)
(***************************************************************************)
EXTENDS Integers, Sequences, FiniteSets, TLC

VARIABLES storage, session, nextId, res, live, calls

vars == <<storage, session, nextId, res, live, calls>>

\* ------------------------------------------------------------- bounds
\* uuid() is called at most MaxId times in a run.
MaxId == 3

\* ------------------------------------------------------- JS values
NoProps == <<>>
Null == [t |-> "null", f |-> NoProps, l |-> <<>>]
Undefined == [t |-> "undefined", f |-> NoProps, l |-> <<>>]
False == [t |-> "false", f |-> NoProps, l |-> <<>>]
True == [t |-> "true", f |-> NoProps, l |-> <<>>]
Obj(f) == [t |-> "obj", f |-> f, l |-> <<>>]
Arr(l) == [t |-> "arr", f |-> NoProps, l |-> l]
Str(v) == [t |-> "str", f |-> NoProps, l |-> <<v>>]

Falsy(v) == v.t \in {"null", "undefined", "false"}
IsArray(v) == v.t = "arr"
HasProp(v, k) == k \in DOMAIN v.f

\* v[k] = x on an object or an array
SetProp(v, k, x) ==
  [v EXCEPT !.f = [p \in DOMAIN v.f \cup {k} |-> IF p = k THEN x ELSE v.f[p]]]

\* delete v[k]
DeleteProp(v, k) == [v EXCEPT !.f = [p \in DOMAIN v.f \ {k} |-> v.f[p]]]

\* {...a, ...b}: own enumerable properties of a, overwritten by those of b;
\* spreading undefined, null or false contributes nothing.
Spread(a, b) ==
  Obj([p \in DOMAIN a.f \cup DOMAIN b.f |->
         IF p \in DOMAIN b.f THEN b.f[p] ELSE a.f[p]])

\* The value JSON.stringify writes: an array keeps its elements and loses its
\* named properties; objects (integer fields only) are written whole.
RECURSIVE Serialized(_)
Serialized(v) ==
  IF v.t = "arr"
    THEN [t |-> "arr", f |-> NoProps,
          l |-> [i \in 1..Len(v.l) |-> Serialized(v.l[i])]]
    ELSE v

JSONstringify(v) == Str(Serialized(v))

\* JSON.parse(x): a string parses to the value it encodes; null is coerced to
\* the text "null" and parses to null; undefined is no JSON text and throws.
JSONparse(x) ==
  IF x.t = "str" THEN [status |-> "ok", val |-> x.l[1]]
  ELSE IF x.t = "null" THEN [status |-> "ok", val |-> Null]
  ELSE [status |-> "throw", val |-> Undefined]

\* --------------------------------------------------- operation outcomes
Ok(v, st) == [status |-> "ok", val |-> v, st |-> st]
Throw(st) == [status |-> "throw", val |-> Undefined, st |-> st]

\* ---------------------------------------------------- names and inputs
ENTITY_PREFIX == "entity"
STORE_PREFIX == "store"
SESSION_STORE == "session"

EntityNames == {"todos"}
StoreNames == {SESSION_STORE, "todos"}
Names == EntityNames \cup StoreNames

\* Variant: one prefix for both kinds of key.
getEntityName_OnePrefix(entityName, isStore) ==
  ENTITY_PREFIX \o "_" \o entityName

getEntityName(entityName, isStore) ==
  (IF isStore THEN STORE_PREFIX ELSE ENTITY_PREFIX) \o "_" \o entityName

Keys == {getEntityName(n, b) : n \in Names, b \in BOOLEAN}

\* ---------------------------------------------------------- AsyncStorage
\* getItem resolves to the stored string, or to null when the key is absent.
getItem(st, key) == st[key]
\* Variant: setItem resolves to undefined.
SetItemResolved_Undefined == Undefined
\* setItem stores the string and resolves to null.
setItem(st, key, text) == [st EXCEPT ![key] = text]
SetItemResolved == Null
\* removeItem deletes the key.
removeItem(st, key) == [st EXCEPT ![key] = Null]
getAllKeys(st) == {k \in Keys : st[k] # Null}

\* ------------------------------------------------------------ stores
getStore(st, entity) ==
  LET store == getItem(st, getEntityName(entity, TRUE)) IN
  IF store.t = "str"
    THEN LET p == JSONparse(store) IN
         IF p.status = "ok" THEN Ok(p.val, st) ELSE Throw(st)
    ELSE Ok(False, st)

\* Variant: an existing store is left as it is.
initStore_IfAbsent(st, entity, defaultValue) ==
  LET key == getEntityName(entity, TRUE)
      st2 == IF getItem(st, key) = Null
               THEN setItem(st, key, JSONstringify(defaultValue))
               ELSE st
      p == JSONparse(SetItemResolved) IN
  IF p.status = "ok" THEN Ok(p.val, st2) ELSE Throw(st2)

initStore(st, entity, defaultValue) ==
  LET st2 == setItem(st, getEntityName(entity, TRUE), JSONstringify(defaultValue))
      p == JSONparse(SetItemResolved) IN
  IF p.status = "ok" THEN Ok(p.val, st2) ELSE Throw(st2)

setStore(st, entity, values) ==
  LET st2 == setItem(st, getEntityName(entity, TRUE), JSONstringify(values))
      p == JSONparse(SetItemResolved) IN
  IF p.status = "ok" THEN Ok(p.val, st2) ELSE Throw(st2)

removeStore(st, entity) ==
  Ok(Null, removeItem(st, getEntityName(entity, TRUE)))

\* Variant: a missing store is taken to be the empty mapping.
setStoreKey_AutoCreate(st, entity, key, value) ==
  LET g == getStore(st, entity)
      base == IF g.val.t \in {"obj", "arr"} THEN g.val ELSE Obj(NoProps)
      currentStore == SetProp(base, key, value)
      s == setStore(st, entity, currentStore) IN
  Ok(currentStore, s.st)

\* Variant: the store is replaced by a mapping holding the one field.
setStoreKey_OnlyKey(st, entity, key, value) ==
  LET g == getStore(st, entity) IN
  IF g.status # "ok" THEN Throw(st)
  ELSE IF g.val.t \notin {"obj", "arr"} THEN Throw(st)
  ELSE LET currentStore == SetProp(Obj(NoProps), key, value)
           s == setStore(st, entity, currentStore) IN
       IF s.status = "ok" THEN Ok(currentStore, s.st) ELSE Throw(s.st)

\* currentStore[key] = value throws a TypeError when currentStore is the
\* primitive false or null (class bodies are strict-mode code).
setStoreKey(st, entity, key, value) ==
  LET g == getStore(st, entity) IN
  IF g.status # "ok" THEN Throw(st)
  ELSE IF g.val.t \notin {"obj", "arr"} THEN Throw(st)
  ELSE LET currentStore == SetProp(g.val, key, value)
           s == setStore(st, entity, currentStore) IN
       IF s.status = "ok" THEN Ok(currentStore, s.st) ELSE Throw(s.st)

removeStoreKey(st, entity, key) ==
  LET g == getStore(st, entity) IN
  IF g.status # "ok" THEN Throw(st)
  ELSE IF g.val.t \notin {"obj", "arr"} THEN Throw(st)
  ELSE LET currentStore == DeleteProp(g.val, key)
           s == setStore(st, entity, currentStore) IN
       IF s.status = "ok" THEN Ok(currentStore, s.st) ELSE Throw(s.st)

\* ------------------------------------------------------------ entities
\* Variant: a record is kept when any one criteria field matches.
filterData_AnyKey(data, criteria) ==
  LET d == IF data.t = "undefined" THEN Arr(<<>>) ELSE data
      criteriaKeys == DOMAIN criteria.f
      isValid(record) ==
        \E key \in criteriaKeys :
          HasProp(record, key) /\ record.f[key] = criteria.f[key]
  IN IF d.t # "arr" THEN [status |-> "throw", val |-> Undefined]
     ELSE [status |-> "ok", val |-> Arr(SelectSeq(d.l, isValid))]

\* [...data] throws a TypeError unless data is iterable; Object.keys(criteria)
\* is an array, which is never falsy, so the early return is never taken.
filterData(data, criteria) ==
  LET d == IF data.t = "undefined" THEN Arr(<<>>) ELSE data
      criteriaKeys == DOMAIN criteria.f
      isValid(record) ==
        \A key \in criteriaKeys :
          HasProp(record, key) /\ record.f[key] = criteria.f[key]
  IN IF d.t # "arr" THEN [status |-> "throw", val |-> Undefined]
     ELSE [status |-> "ok", val |-> Arr(SelectSeq(d.l, isValid))]

\* criteria is False (the default) or a criteria object.
getData(st, entityName, criteria) ==
  LET data == getItem(st, getEntityName(entityName, FALSE))
      p == JSONparse(data) IN
  IF p.status # "ok" THEN [status |-> "throw", val |-> Undefined]
  ELSE IF criteria # False THEN filterData(p.val, criteria)
  ELSE p

getAll(st, entity) ==
  LET records == getData(st, entity, False) IN
  IF records.status # "ok" THEN Throw(st)
  ELSE IF IsArray(records.val) THEN Ok(records.val, st)
  ELSE Ok(False, st)

persistData(st, entity, data) ==
  Ok(True, setItem(st, getEntityName(entity, FALSE), JSONstringify(data)))

\* (await this.getData(entity)) || []
RecordsOrEmpty(st, entity) ==
  LET r == getData(st, entity, False) IN
  IF r.status # "ok" THEN r
  ELSE IF Falsy(r.val) THEN [status |-> "ok", val |-> Arr(<<>>)]
  ELSE r

\* Variant: a ui_code the caller supplied is kept.
addRecord_KeepsGivenId(st, entity, data, id) ==
  LET data2 == IF HasProp(data, "ui_code") THEN data
               ELSE SetProp(data, "ui_code", id)
      r == RecordsOrEmpty(st, entity)
      records == [r.val EXCEPT !.l = Append(r.val.l, data2)]
      w == persistData(st, entity, records) IN
  Ok(data2, w.st)

\* Variant: the new record replaces the collection.
addRecord_Overwrites(st, entity, data, id) ==
  LET data2 == SetProp(data, "ui_code", id)
      w == persistData(st, entity, Arr(<<data2>>)) IN
  Ok(data2, w.st)

\* id is the value uuid() returns.
addRecord(st, entity, data, id) ==
  LET data2 == SetProp(data, "ui_code", id)
      r == RecordsOrEmpty(st, entity) IN
  IF r.status # "ok" \/ ~IsArray(r.val) THEN Throw(st)
  ELSE LET records == [r.val EXCEPT !.l = Append(r.val.l, data2)]
           w == persistData(st, entity, records) IN
       Ok(data2, w.st)

getById(st, entity, id) ==
  LET response == getData(st, entity, Obj([ui_code |-> id])) IN
  IF response.status # "ok" THEN Throw(st)
  ELSE IF IsArray(response.val) /\ Len(response.val.l) > 0
    THEN Ok(response.val.l[1], st)
  ELSE Ok(False, st)

findAll(st, entity, criteria) ==
  LET r == getData(st, entity, criteria) IN
  IF r.status # "ok" THEN Throw(st)
  ELSE IF Falsy(r.val) THEN Ok(Arr(<<>>), st)
  ELSE Ok(r.val, st)

findOneBy(st, entity, criteria) ==
  LET r == findAll(st, entity, criteria) IN
  IF r.status # "ok" \/ ~IsArray(r.val) THEN Throw(st)
  ELSE IF Len(r.val.l) > 0 THEN Ok(r.val.l[1], st)
  ELSE Ok(Undefined, st)

\* !newData.ui_code
NoIdentifier(newData) ==
  ~HasProp(newData, "ui_code") \/ newData.f["ui_code"] = 0

\* The index Array.prototype.find stops at, or 0 when recordIndex stays null.
FoundIndex(l, ui_code) ==
  LET hits == {i \in 1..Len(l) :
                 HasProp(l[i], "ui_code") /\ l[i].f["ui_code"] = ui_code} IN
  IF hits = {} THEN 0 ELSE CHOOSE i \in hits : \A j \in hits : i <= j

\* Variant: newData is appended when no record matches.
MergedRecords_Upsert(l, newData) ==
  LET recordIndex == FoundIndex(l, newData.f["ui_code"]) IN
  IF recordIndex = 0 THEN Append(l, newData)
  ELSE [l EXCEPT ![recordIndex] = Spread(l[recordIndex], newData)]

\* Variant: the matching record is replaced by newData alone.
MergedRecords_PatchOnly(l, newData) ==
  LET recordIndex == FoundIndex(l, newData.f["ui_code"]) IN
  IF recordIndex = 0 THEN l ELSE [l EXCEPT ![recordIndex] = newData]

\* currentRecords[recordIndex] = currentData: with recordIndex null this sets
\* the named property "null" of the array, which JSON.stringify omits.
MergedRecords(l, newData) ==
  LET recordIndex == FoundIndex(l, newData.f["ui_code"])
      currentData == IF recordIndex = 0 THEN Undefined ELSE l[recordIndex]
      merged == Spread(currentData, newData) IN
  IF recordIndex = 0 THEN l ELSE [l EXCEPT ![recordIndex] = merged]

updateRecord(st, entity, newData) ==
  IF NoIdentifier(newData) THEN Throw(st)
  ELSE LET r == RecordsOrEmpty(st, entity) IN
       IF r.status # "ok" \/ ~IsArray(r.val) THEN Throw(st)
       ELSE persistData(st, entity,
                        [r.val EXCEPT !.l = MergedRecords(r.val.l, newData)])

\* Variant: the filter keeps the matching records instead of the others.
Remaining_Inverted(l, ui_code) ==
  LET keep(record) ==
        HasProp(record, "ui_code") /\ record.f["ui_code"] = ui_code
  IN SelectSeq(l, keep)

Remaining(l, ui_code) ==
  LET keep(record) ==
        ~(HasProp(record, "ui_code") /\ record.f["ui_code"] = ui_code)
  IN SelectSeq(l, keep)

deleteRecord(st, entity, ui_code) ==
  IF ui_code = 0 THEN Throw(st)
  ELSE LET r == RecordsOrEmpty(st, entity) IN
       IF r.status # "ok" \/ ~IsArray(r.val) THEN Throw(st)
       ELSE persistData(st, entity,
                        [r.val EXCEPT !.l = Remaining(r.val.l, ui_code)])

showEntities(st) == getAllKeys(st)

initEntity(st, entity, id) == addRecord(st, entity, Arr(<<>>), id)

entityExists(st, entity) ==
  Ok(IF entity \in showEntities(st) THEN True ELSE False, st)

\* Variant: the collection is emptied instead of its key being removed.
removeEntity_Clears(st, entity) ==
  Ok(True, setItem(st, getEntityName(entity, FALSE), JSONstringify(Arr(<<>>))))

removeEntity(st, entity) ==
  Ok(True, removeItem(st, getEntityName(entity, FALSE)))

clearEntity(st, entity) == persistData(st, entity, Arr(<<>>))

\* ------------------------------------------------------- SessionService
\* Each operation yields [status, val, st, session]: the outcome, the backend
\* and the cached this.session afterwards.
SOk(v, st, sess) == [status |-> "ok", val |-> v, st |-> st, session |-> sess]
SThrow(st, sess) ==
  [status |-> "throw", val |-> Undefined, st |-> st, session |-> sess]

read(st, sess) ==
  LET g == getStore(st, SESSION_STORE) IN
  IF g.status = "ok" THEN SOk(g.val, st, g.val) ELSE SThrow(st, sess)

initialize(st, sess, defaultSession) ==
  LET r == read(st, sess) IN
  IF r.status # "ok" THEN SThrow(st, sess)
  ELSE IF Falsy(r.val)
    THEN LET i == initStore(st, SESSION_STORE, defaultSession) IN
         IF i.status = "ok" THEN SOk(True, i.st, i.val)
         ELSE SThrow(i.st, r.session)
  ELSE SOk(True, st, r.val)

write(st, sess, key, value) ==
  LET w == setStoreKey(st, SESSION_STORE, key, value) IN
  IF w.status = "ok" THEN SOk(w.val, w.st, w.val) ELSE SThrow(w.st, sess)

writeAll(st, sess, values) ==
  LET merged == Spread(sess, values)
      w == setStore(st, SESSION_STORE, merged) IN
  IF w.status = "ok" THEN SOk(w.val, w.st, merged) ELSE SThrow(w.st, merged)

\* delete this.session[key] throws a TypeError when this.session is null.
remove(st, sess, key) ==
  LET w == removeStoreKey(st, SESSION_STORE, key) IN
  IF w.status # "ok" THEN SThrow(w.st, sess)
  ELSE IF sess.t \in {"null", "undefined"} THEN SThrow(w.st, sess)
  ELSE IF sess.t \in {"obj", "arr"}
    THEN SOk(DeleteProp(sess, key), w.st, DeleteProp(sess, key))
  ELSE SOk(sess, w.st, sess)

\* this.session[key] || defaultValue: reading a property of null throws a
\* TypeError; false has no own properties.
sessionGet(sess, key, defaultValue) ==
  IF sess.t \in {"null", "undefined"}
    THEN [status |-> "throw", val |-> Undefined]
  ELSE IF HasProp(sess, key) /\ sess.f[key] # 0
    THEN [status |-> "ok", val |-> sess.f[key]]
  ELSE [status |-> "ok", val |-> defaultValue]

sessionGetAll(sess) == sess

clear(st, sess, newData) ==
  LET w == setStore(st, SESSION_STORE, newData) IN
  IF w.status = "ok" THEN SOk(w.val, w.st, newData) ELSE SThrow(w.st, newData)

\* ------------------------------------------------------------- inputs
\* The last input is a record that already carries a ui_code (one read back
\* from a collection and added again).
DataInputs ==
  {Obj(NoProps), Obj([x |-> 1]), Obj([x |-> 1, y |-> 2]), Obj([ui_code |-> 1])}
Ids == 0..MaxId
Patches ==
  {Obj([ui_code |-> i, y |-> 5]) : i \in Ids} \cup
  {Obj([ui_code |-> i]) : i \in Ids} \cup {Obj([y |-> 5])}
CriteriaInputs ==
  {Obj(NoProps), Obj([x |-> 1]), Obj([y |-> 5]), Obj([x |-> 1, y |-> 2])}
StoreInputs ==
  {Obj(NoProps), Obj([lang |-> 1]), Obj([lang |-> 2]),
   Obj([lang |-> 1, token |-> 2])}
StoreKeyInputs == {"lang"}
StoreValueInputs == {1, 2}

\* ------------------------------------------------------------- state
\* calls holds, for each caller, the asynchronous call it has in progress: the
\* method and its arguments, the await it is suspended at (pc), the write it
\* has issued (pending), the outcome it will settle with, and how many
\* AsyncStorage reads (gets) and writes (sets) it has completed.  stale is set
\* when another caller's write lands between this call's read and its write.
Callers == {"A", "B"}

IdleCall ==
  [op |-> "none", name |-> "", id |-> 0, k |-> "", arg |-> Undefined,
   pc |-> "idle", pending |-> Null, status |-> "ok", val |-> Undefined,
   gets |-> 0, sets |-> 0, stale |-> FALSE]

\* res records the last operation: its name, its arguments and its outcome.
Outcome(op, name, id, k, arg, r) ==
  [op |-> op, name |-> name, id |-> id, k |-> k, arg |-> arg,
   status |-> r.status, val |-> r.val]

Init ==
  /\ storage = [key \in Keys |-> Null]
  /\ session = Null
  /\ nextId = 1
  /\ res = Outcome("none", "", 0, "", Undefined, Ok(Undefined, <<>>))
  /\ live = <<>>
  /\ calls = [c \in Callers |-> IdleCall]

\* ------------------------------------------------------ store actions
GetStore ==
  \E name \in StoreNames :
    LET r == getStore(storage, name) IN
    /\ res' = Outcome("getStore", name, 0, "", Undefined, r)
    /\ UNCHANGED <<storage, session, nextId, live, calls>>

InitStore ==
  \E name \in StoreNames, v \in StoreInputs :
    LET r == initStore(storage, name, v) IN
    /\ storage' = r.st
    /\ res' = Outcome("initStore", name, 0, "", v, r)
    /\ UNCHANGED <<session, nextId, live, calls>>

SetStore ==
  \E name \in StoreNames, v \in StoreInputs :
    LET r == setStore(storage, name, v) IN
    /\ storage' = r.st
    /\ res' = Outcome("setStore", name, 0, "", v, r)
    /\ UNCHANGED <<session, nextId, live, calls>>

RemoveStore ==
  \E name \in StoreNames :
    LET r == removeStore(storage, name) IN
    /\ storage' = r.st
    /\ res' = Outcome("removeStore", name, 0, "", Undefined, r)
    /\ UNCHANGED <<session, nextId, live, calls>>

SetStoreKey ==
  \E name \in StoreNames, k \in StoreKeyInputs, v \in StoreValueInputs :
    LET r == setStoreKey(storage, name, k, v) IN
    /\ storage' = r.st
    /\ res' = Outcome("setStoreKey", name, v, k, Undefined, r)
    /\ UNCHANGED <<session, nextId, live, calls>>

RemoveStoreKey ==
  \E name \in StoreNames, k \in StoreKeyInputs :
    LET r == removeStoreKey(storage, name, k) IN
    /\ storage' = r.st
    /\ res' = Outcome("removeStoreKey", name, 0, k, Undefined, r)
    /\ UNCHANGED <<session, nextId, live, calls>>

\* ------------------------------------------------------ entity actions
\* uuid() is modelled as a generator of fresh identifiers nextId, nextId+1, ...
AddRecordStep(entity, data) ==
  /\ nextId <= MaxId
  /\ LET r == addRecord(storage, entity, data, nextId) IN
     /\ storage' = r.st
     /\ res' = Outcome("addRecord", entity, 0, "", data, r)
  /\ nextId' = nextId + 1
  /\ UNCHANGED session

DeleteRecordStep(entity, id) ==
  LET r == deleteRecord(storage, entity, id) IN
  /\ storage' = r.st
  /\ res' = Outcome("deleteRecord", entity, id, "", Undefined, r)
  /\ UNCHANGED <<session, nextId>>

FindAllStep(entity, criteria) ==
  LET r == findAll(storage, entity, criteria) IN
  /\ res' = Outcome("findAll", entity, 0, "", criteria, r)
  /\ UNCHANGED <<storage, session, nextId>>

AddRecord ==
  \E entity \in EntityNames, data \in DataInputs :
    AddRecordStep(entity, data) /\ UNCHANGED <<live, calls>>

DeleteRecord ==
  \E entity \in EntityNames, id \in Ids :
    DeleteRecordStep(entity, id) /\ UNCHANGED <<live, calls>>

FindAll ==
  \E entity \in EntityNames, criteria \in CriteriaInputs :
    FindAllStep(entity, criteria) /\ UNCHANGED <<live, calls>>

GetAll ==
  \E entity \in EntityNames :
    LET r == getAll(storage, entity) IN
    /\ res' = Outcome("getAll", entity, 0, "", Undefined, r)
    /\ UNCHANGED <<storage, session, nextId, live, calls>>

GetById ==
  \E entity \in EntityNames, id \in Ids :
    LET r == getById(storage, entity, id) IN
    /\ res' = Outcome("getById", entity, id, "", Undefined, r)
    /\ UNCHANGED <<storage, session, nextId, live, calls>>

FindOneBy ==
  \E entity \in EntityNames, criteria \in CriteriaInputs :
    LET r == findOneBy(storage, entity, criteria) IN
    /\ res' = Outcome("findOneBy", entity, 0, "", criteria, r)
    /\ UNCHANGED <<storage, session, nextId, live, calls>>

UpdateRecord ==
  \E entity \in EntityNames, newData \in Patches :
    LET r == updateRecord(storage, entity, newData) IN
    /\ storage' = r.st
    /\ res' = Outcome("updateRecord", entity, 0, "", newData, r)
    /\ UNCHANGED <<session, nextId, live, calls>>

InitEntity ==
  \E entity \in EntityNames :
    /\ nextId <= MaxId
    /\ LET r == initEntity(storage, entity, nextId) IN
       /\ storage' = r.st
       /\ res' = Outcome("initEntity", entity, 0, "", Undefined, r)
    /\ nextId' = nextId + 1
    /\ UNCHANGED <<session, live, calls>>

EntityExists ==
  \E entity \in EntityNames \cup {getEntityName(e, FALSE) : e \in EntityNames} :
    LET r == entityExists(storage, entity) IN
    /\ res' = Outcome("entityExists", entity, 0, "", Undefined, r)
    /\ UNCHANGED <<storage, session, nextId, live, calls>>

RemoveEntity ==
  \E entity \in EntityNames :
    LET r == removeEntity(storage, entity) IN
    /\ storage' = r.st
    /\ res' = Outcome("removeEntity", entity, 0, "", Undefined, r)
    /\ UNCHANGED <<session, nextId, live, calls>>

ClearEntity ==
  \E entity \in EntityNames :
    LET r == clearEntity(storage, entity) IN
    /\ storage' = r.st
    /\ res' = Outcome("clearEntity", entity, 0, "", Undefined, r)
    /\ UNCHANGED <<session, nextId, live, calls>>

\* ----------------------------------------------------- session actions
SessionStep(op, k, arg, r) ==
  /\ storage' = r.st
  /\ session' = r.session
  /\ res' = Outcome(op, SESSION_STORE, 0, k, arg, r)
  /\ UNCHANGED <<nextId, live, calls>>

Initialize ==
  \E d \in StoreInputs :
    SessionStep("initialize", "", d, initialize(storage, session, d))

Read == SessionStep("read", "", Undefined, read(storage, session))

Write ==
  \E k \in StoreKeyInputs, v \in StoreValueInputs :
    SessionStep("write", k, Obj([p \in {k} |-> v]),
                write(storage, session, k, v))

WriteAll ==
  \E v \in StoreInputs :
    SessionStep("writeAll", "", v, writeAll(storage, session, v))

Remove ==
  \E k \in StoreKeyInputs :
    SessionStep("remove", k, Undefined, remove(storage, session, k))

Clear ==
  \E d \in StoreInputs :
    SessionStep("clear", "", d, clear(storage, session, d))

\* ------------------------------------------------------ specifications
\* The entity operations of StorageService, called one after the other.
NextEntity ==
  \/ AddRecord \/ DeleteRecord \/ FindAll \/ GetAll \/ GetById \/ FindOneBy
  \/ UpdateRecord \/ InitEntity \/ EntityExists \/ RemoveEntity \/ ClearEntity

SpecEntity == Init /\ [][NextEntity]_vars

\* The store operations of StorageService and the SessionService over them.
NextStore ==
  \/ GetStore \/ InitStore \/ SetStore \/ RemoveStore \/ SetStoreKey
  \/ RemoveStoreKey
  \/ Initialize \/ Read \/ Write \/ WriteAll \/ Remove \/ Clear

SpecStore == Init /\ [][NextStore]_vars

\* Only addRecord and deleteRecord change the entity, and live follows the
\* calls: the records addRecord returned, minus those deleteRecord was asked
\* to delete.
TrackedAddRecord ==
  \E entity \in EntityNames, data \in DataInputs :
    /\ AddRecordStep(entity, data)
    /\ live' = IF res'.status = "ok" THEN Append(live, res'.val) ELSE live
    /\ UNCHANGED calls

TrackedDeleteRecord ==
  \E entity \in EntityNames, id \in Ids :
    /\ DeleteRecordStep(entity, id)
    /\ live' = IF res'.status = "ok"
                 THEN SelectSeq(live, LAMBDA rec : rec.f["ui_code"] # id)
                 ELSE live
    /\ UNCHANGED calls

NextAddDel == TrackedAddRecord \/ TrackedDeleteRecord \/ FindAll

SpecAddDel == Init /\ [][NextAddDel]_vars

\* Creation, removal and reading of stores and entities.
NextLifecycle ==
  \/ AddRecord \/ ClearEntity \/ RemoveEntity
  \/ SetStore \/ InitStore \/ SetStoreKey \/ RemoveStore
  \/ GetStore \/ GetAll \/ GetById \/ FindAll \/ FindOneBy

SpecLifecycle == Init /\ [][NextLifecycle]_vars

\* ------------------------------------------------- asynchronous calls
\* A method runs synchronously up to its first await, is suspended while
\* AsyncStorage serves the call it awaits, and resumes with the result.  Every
\* method awaits at most one read (getItem, getAllKeys) and then at most one
\* write (setItem, removeItem).
StoreOps ==
  {"getStore", "initStore", "setStore", "removeStore", "setStoreKey",
   "removeStoreKey"}
EntityOps ==
  {"getAll", "addRecord", "getById", "findAll", "findOneBy", "updateRecord",
   "deleteRecord", "initEntity", "entityExists", "removeEntity", "clearEntity"}
\* The methods whose first AsyncStorage call is a read.
ReadFirst ==
  {"getStore", "setStoreKey", "removeStoreKey", "getAll", "addRecord",
   "getById", "findAll", "findOneBy", "updateRecord", "deleteRecord",
   "initEntity", "entityExists"}
\* The methods that call setItem or removeItem.
Writers ==
  {"initStore", "setStore", "removeStore", "setStoreKey", "removeStoreKey",
   "addRecord", "updateRecord", "deleteRecord", "initEntity", "removeEntity",
   "clearEntity"}

Request(op, name, id, k, arg) ==
  [IdleCall EXCEPT !.op = op, !.name = name, !.id = id, !.k = k, !.arg = arg]

\* The method of a call, run on the backend st.
Run(call, st) ==
  CASE call.op = "getStore" -> getStore(st, call.name)
    [] call.op = "initStore" -> initStore(st, call.name, call.arg)
    [] call.op = "setStore" -> setStore(st, call.name, call.arg)
    [] call.op = "removeStore" -> removeStore(st, call.name)
    [] call.op = "setStoreKey" -> setStoreKey(st, call.name, call.k, call.id)
    [] call.op = "removeStoreKey" -> removeStoreKey(st, call.name, call.k)
    [] call.op = "getAll" -> getAll(st, call.name)
    [] call.op = "addRecord" -> addRecord(st, call.name, call.arg, call.id)
    [] call.op = "getById" -> getById(st, call.name, call.id)
    [] call.op = "findAll" -> findAll(st, call.name, call.arg)
    [] call.op = "findOneBy" -> findOneBy(st, call.name, call.arg)
    [] call.op = "updateRecord" -> updateRecord(st, call.name, call.arg)
    [] call.op = "deleteRecord" -> deleteRecord(st, call.name, call.id)
    [] call.op = "initEntity" -> initEntity(st, call.name, call.id)
    [] call.op = "entityExists" -> entityExists(st, call.name)
    [] call.op = "removeEntity" -> removeEntity(st, call.name)
    [] call.op = "clearEntity" -> clearEntity(st, call.name)

\* The key a method passes to AsyncStorage.
WriteKey(call) == getEntityName(call.name, call.op \in StoreOps)

\* Variant: the identifier is checked only after the collection was read.
ThrowsFirst_AfterRead(call) == FALSE

\* updateRecord and deleteRecord throw on a missing identifier before they
\* await anything.
ThrowsFirst(call) ==
  \/ call.op = "updateRecord" /\ NoIdentifier(call.arg)
  \/ call.op = "deleteRecord" /\ call.id = 0

\* The call settles: its promise resolves with val or rejects.
Settled(call, status, val) ==
  [call EXCEPT !.pc = "done", !.status = status, !.val = val]

\* The call has issued its write and awaits it.
Writing(call, r) ==
  [call EXCEPT !.pc = "set", !.pending = r.st[WriteKey(call)],
               !.status = r.status, !.val = r.val]

\* A caller that awaits nothing calls a method; addRecord and initEntity draw
\* their identifier from uuid() before the first await.
Invoke(c, req) ==
  /\ calls[c].pc \in {"idle", "done"}
  /\ LET fresh == req.op \in {"addRecord", "initEntity"}
         call == IF fresh THEN [req EXCEPT !.id = nextId] ELSE req IN
     /\ fresh => nextId <= MaxId
     /\ nextId' = IF fresh THEN nextId + 1 ELSE nextId
     /\ calls' = [calls EXCEPT ![c] =
          IF ThrowsFirst(call) THEN Settled(call, "throw", Undefined)
          ELSE IF call.op \in ReadFirst THEN [call EXCEPT !.pc = "get"]
          ELSE Writing(call, Run(call, storage))]
  /\ UNCHANGED <<storage, session, res, live>>

\* AsyncStorage serves the read; the method resumes and either settles or
\* issues its write.
Get(c) ==
  /\ calls[c].pc = "get"
  /\ LET call == [calls[c] EXCEPT !.gets = @ + 1]
         r == Run(call, storage)
         key == WriteKey(call)
         writes == /\ call.op \in Writers
                   /\ (r.status = "ok" \/ r.st[key] # storage[key]) IN
     calls' = [calls EXCEPT ![c] =
       IF writes THEN Writing(call, r) ELSE Settled(call, r.status, r.val)]
  /\ UNCHANGED <<storage, session, nextId, res, live>>

\* AsyncStorage serves the write; the method resumes and settles.  Every other
\* call that has read the same key and not yet written it now holds an old
\* value.
Set(c) ==
  /\ calls[c].pc = "set"
  /\ LET key == WriteKey(calls[c]) IN
     /\ storage' = [storage EXCEPT ![key] = calls[c].pending]
     /\ calls' = [d \in Callers |->
          IF d = c
            THEN [calls[c] EXCEPT !.pc = "done", !.sets = @ + 1]
          ELSE IF calls[d].pc = "set" /\ WriteKey(calls[d]) = key
            THEN [calls[d] EXCEPT !.stale = TRUE]
          ELSE calls[d]]
  /\ UNCHANGED <<session, nextId, res, live>>

\* AsyncStorage rejects the read: the method rethrows.
GetFails(c) ==
  /\ calls[c].pc = "get"
  /\ calls' = [calls EXCEPT ![c] =
       Settled([calls[c] EXCEPT !.gets = @ + 1], "throw", Undefined)]
  /\ UNCHANGED <<storage, session, nextId, res, live>>

\* AsyncStorage rejects the write, which then has no effect: the method
\* rethrows.
SetFails(c) ==
  /\ calls[c].pc = "set"
  /\ calls' = [calls EXCEPT ![c] = Settled(calls[c], "throw", Undefined)]
  /\ UNCHANGED <<storage, session, nextId, res, live>>

\* The calls of one caller, one after the other, on a backend that may fail.
CallStores == {SESSION_STORE}
CallData == {Obj(NoProps)}
CallInputs ==
  {Request("getStore", n, 0, "", Undefined) : n \in CallStores} \cup
  {Request("initStore", n, 0, "", v) : n \in CallStores, v \in StoreInputs} \cup
  {Request("setStore", n, 0, "", v) : n \in CallStores, v \in StoreInputs} \cup
  {Request("removeStore", n, 0, "", Undefined) : n \in CallStores} \cup
  {Request("setStoreKey", n, v, k, Undefined) :
     n \in CallStores, k \in StoreKeyInputs, v \in StoreValueInputs} \cup
  {Request("removeStoreKey", n, 0, k, Undefined) :
     n \in CallStores, k \in StoreKeyInputs} \cup
  {Request("getAll", e, 0, "", Undefined) : e \in EntityNames} \cup
  {Request("addRecord", e, 0, "", d) : e \in EntityNames, d \in CallData} \cup
  {Request("getById", e, i, "", Undefined) : e \in EntityNames, i \in Ids} \cup
  {Request("findAll", e, 0, "", c) :
     e \in EntityNames, c \in CriteriaInputs} \cup
  {Request("findOneBy", e, 0, "", c) :
     e \in EntityNames, c \in CriteriaInputs} \cup
  {Request("updateRecord", e, 0, "", p) : e \in EntityNames, p \in Patches} \cup
  {Request("deleteRecord", e, i, "", Undefined) :
     e \in EntityNames, i \in Ids} \cup
  {Request("initEntity", e, 0, "", Undefined) : e \in EntityNames} \cup
  {Request("entityExists", e, 0, "", Undefined) : e \in EntityNames} \cup
  {Request("removeEntity", e, 0, "", Undefined) : e \in EntityNames} \cup
  {Request("clearEntity", e, 0, "", Undefined) : e \in EntityNames}

CallInvoke == \E req \in CallInputs : Invoke("A", req)
CallGet == Get("A")
CallSet == Set("A")
CallGetFails == GetFails("A")
CallSetFails == SetFails("A")

NextCalls ==
  CallInvoke \/ CallGet \/ CallSet \/ CallGetFails \/ CallSetFails

SpecCalls == Init /\ [][NextCalls]_vars

\* Two callers whose calls interleave at the awaits, on a backend that does
\* not fail.  Both add records to the same entity and set a field, each its
\* own, of the same store.
RaceKey(c) == IF c = "A" THEN "lang" ELSE "token"

RaceInputs(c) ==
  {Request("initStore", SESSION_STORE, 0, "", Obj(NoProps)),
   Request("setStoreKey", SESSION_STORE, 1, RaceKey(c), Undefined)} \cup
  {Request("addRecord", e, 0, "", d) : e \in EntityNames, d \in CallData}

RaceInvoke == \E c \in Callers : \E req \in RaceInputs(c) : Invoke(c, req)
RaceGet == \E c \in Callers : Get(c)
RaceSet == \E c \in Callers : Set(c)

NextRace == RaceInvoke \/ RaceGet \/ RaceSet

SpecRace == Init /\ [][NextRace]_vars

\* SessionService alone, constructed over a backend whose session store is
\* absent or holds any mapping: its methods are the only writers.
SessionMappings ==
  {Obj(f) : f \in UNION {[D -> StoreValueInputs] :
                           D \in SUBSET {"lang", "token"}}}

InitSession ==
  /\ \E v \in {Null} \cup {JSONstringify(d) : d \in SessionMappings} :
       storage = [key \in Keys |->
                    IF key = getEntityName(SESSION_STORE, TRUE) THEN v ELSE Null]
  /\ session = Null
  /\ nextId = 1
  /\ res = Outcome("none", "", 0, "", Undefined, Ok(Undefined, <<>>))
  /\ live = <<>>
  /\ calls = [c \in Callers |-> IdleCall]

\* get and getAll read the cache and await nothing.
SessionGet ==
  \E k \in StoreKeyInputs :
    /\ res' = Outcome("get", SESSION_STORE, 0, k, Undefined,
                      sessionGet(session, k, Null))
    /\ UNCHANGED <<storage, session, nextId, live, calls>>

SessionGetAll ==
  /\ res' = Outcome("getAll", SESSION_STORE, 0, "", Undefined,
                    [status |-> "ok", val |-> sessionGetAll(session)])
  /\ UNCHANGED <<storage, session, nextId, live, calls>>

NextSession ==
  \/ Initialize \/ Read \/ Write \/ WriteAll \/ Remove \/ Clear
  \/ SessionGet \/ SessionGetAll

SpecSession == InitSession /\ [][NextSession]_vars

\* A store and an entity of the same logical name, written by every mutating
\* method, each call running to completion before the next.
SharedName == "todos"

IsolationInputs ==
  {req \in CallInputs : req.op \in EntityOps /\ req.op \in Writers} \cup
  {Request("initStore", SharedName, 0, "", v) : v \in StoreInputs} \cup
  {Request("setStore", SharedName, 0, "", v) : v \in StoreInputs} \cup
  {Request("removeStore", SharedName, 0, "", Undefined)} \cup
  {Request("setStoreKey", SharedName, v, k, Undefined) :
     k \in StoreKeyInputs, v \in StoreValueInputs} \cup
  {Request("removeStoreKey", SharedName, 0, k, Undefined) :
     k \in StoreKeyInputs}

AtomicStep(req) ==
  LET fresh == req.op \in {"addRecord", "initEntity"}
      call == IF fresh THEN [req EXCEPT !.id = nextId] ELSE req
      r == Run(call, storage) IN
  /\ fresh => nextId <= MaxId
  /\ nextId' = IF fresh THEN nextId + 1 ELSE nextId
  /\ storage' = r.st
  /\ res' = Outcome(req.op, req.name, req.id, req.k, req.arg, r)
  /\ UNCHANGED <<session, live, calls>>

AtomicCall(op) == \E req \in IsolationInputs : req.op = op /\ AtomicStep(req)

SharedInitStore == AtomicCall("initStore")
SharedSetStore == AtomicCall("setStore")
SharedSetStoreKey == AtomicCall("setStoreKey")
SharedRemoveStoreKey == AtomicCall("removeStoreKey")
SharedRemoveStore == AtomicCall("removeStore")
SharedAddRecord == AtomicCall("addRecord")
SharedUpdateRecord == AtomicCall("updateRecord")
SharedDeleteRecord == AtomicCall("deleteRecord")
SharedInitEntity == AtomicCall("initEntity")
SharedClearEntity == AtomicCall("clearEntity")
SharedRemoveEntity == AtomicCall("removeEntity")

NextIsolation ==
  \/ SharedInitStore \/ SharedSetStore \/ SharedSetStoreKey
  \/ SharedRemoveStoreKey \/ SharedRemoveStore
  \/ SharedAddRecord \/ SharedUpdateRecord \/ SharedDeleteRecord
  \/ SharedInitEntity \/ SharedClearEntity \/ SharedRemoveEntity

SpecIsolation == Init /\ [][NextIsolation]_vars

\* ------------------------------------------------------------ properties
\* The records persisted for an entity, none when the key is absent.
RecordsOf(st, entity) ==
  LET d == st[getEntityName(entity, FALSE)] IN
  IF d.t = "str" /\ d.l[1].t = "arr" THEN d.l[1].l ELSE <<>>

Range(seq) == {seq[i] : i \in 1..Len(seq)}
Absent(st, key) == st[key] = Null
EmptyBackend == [key \in Keys |-> Null]
View(r) == <<r.status, r.val>>

\* C1: after any series of addRecord and deleteRecord calls on one entity,
\* findAll(entity, {}) succeeds and returns exactly the records added and not
\* deleted since, none extra and none missing.
C1_FindAllReturnsLiveRecords ==
  (res.op = "findAll" /\ res.arg = Obj(NoProps)) =>
    /\ res.status = "ok"
    /\ IsArray(res.val)
    /\ Len(res.val.l) = Len(live)
    /\ Range(res.val.l) = Range(live)

\* C2: findAll never fails and always returns a sequence, the empty one when
\* the entity's key is absent.
C2_FindAllAlwaysReturnsSequence ==
  res.op = "findAll" =>
    /\ res.status = "ok"
    /\ IsArray(res.val)
    /\ (Absent(storage, getEntityName(res.name, FALSE)) => res.val = Arr(<<>>))

\* C3: getById returns the record whose ui_code is id when the collection
\* holds one, and returns false without failing in every other case.
C3_GetByIdRecordOrFalse ==
  res.op = "getById" =>
    LET l == RecordsOf(storage, res.name)
        i == FoundIndex(l, res.id) IN
    /\ res.status = "ok"
    /\ res.val = IF i = 0 THEN False ELSE l[i]

\* C4: updateRecord with a ui_code that matches no record fails and leaves
\* the backend as it was.
C4_UpdateUnknownIdFails ==
  [][(/\ res'.op = "updateRecord"
      /\ ~NoIdentifier(res'.arg)
      /\ FoundIndex(RecordsOf(storage, res'.name), res'.arg.f["ui_code"]) = 0)
     => (res'.status = "throw" /\ storage' = storage)]_vars

\* C5: setStoreKey and removeStoreKey on a store that does not exist fail and
\* the backend still holds nothing for that store.
C5_KeyOpsOnMissingStoreFail ==
  [][(/\ res'.op \in {"setStoreKey", "removeStoreKey"}
      /\ Absent(storage, getEntityName(res'.name, TRUE)))
     => (/\ res'.status = "throw"
         /\ Absent(storage', getEntityName(res'.name, TRUE)))]_vars

C5_Witness ==
  /\ res.op = "setStoreKey"
  /\ res.status = "throw"
  /\ Absent(storage, getEntityName(res.name, TRUE))

\* C6: initialize succeeds and afterwards the cached session equals the
\* persisted session store: the defaults when no store existed, the store
\* that existed otherwise (the backend then being left unchanged).
C6_InitializeCachesStore ==
  [][res'.op = "initialize" =>
       /\ res'.status = "ok"
       /\ IF Absent(storage, getEntityName(SESSION_STORE, TRUE))
            THEN /\ getStore(storage', SESSION_STORE).val = res'.arg
                 /\ sessionGetAll(session') = res'.arg
            ELSE /\ storage' = storage
                 /\ sessionGetAll(session') = getStore(storage, SESSION_STORE).val
    ]_vars

\* C7: initEntity creates an absent collection as the empty sequence and
\* leaves an existing collection unchanged.
C7_InitEntitySeedsEmpty ==
  [][res'.op = "initEntity" =>
       IF Absent(storage, getEntityName(res'.name, FALSE))
         THEN getAll(storage', res'.name).val = Arr(<<>>)
         ELSE storage' = storage
    ]_vars

\* C8 as stated: deleteRecord with an id matching no record does not fail and
\* leaves what getAll returns unchanged, whatever the collection was (never
\* written, empty or non-empty).
C8_DeleteUnknownIdKeepsGetAll ==
  [][(/\ res'.op = "deleteRecord"
      /\ res'.id # 0
      /\ FoundIndex(RecordsOf(storage, res'.name), res'.id) = 0)
     => (/\ res'.status = "ok"
         /\ View(getAll(storage', res'.name)) = View(getAll(storage, res'.name)))
    ]_vars

\* C8 amended: deleteRecord with an id matching no record does not fail; it
\* leaves what getAll returns unchanged when the collection exists, and
\* creates the empty collection when the entity was never written; a second
\* deleteRecord with the same id changes nothing more.
C8_DeleteUnknownIdIdempotent ==
  [][(/\ res'.op = "deleteRecord"
      /\ res'.id # 0
      /\ FoundIndex(RecordsOf(storage, res'.name), res'.id) = 0)
     => (/\ res'.status = "ok"
         /\ IF Absent(storage, getEntityName(res'.name, FALSE))
              THEN View(getAll(storage', res'.name)) = <<"ok", Arr(<<>>)>>
              ELSE View(getAll(storage', res'.name))
                     = View(getAll(storage, res'.name))
         /\ deleteRecord(storage', res'.name, res'.id).status = "ok"
         /\ deleteRecord(storage', res'.name, res'.id).st = storage')
    ]_vars

\* An identifier uuid() has not returned yet matches no record.
C8_Witness ==
  /\ res.op = "deleteRecord"
  /\ res.status = "ok"
  /\ res.id >= nextId
  /\ Len(RecordsOf(storage, res.name)) = 2

\* C9: after removeStore or removeEntity the backend holds no key for the
\* name, and every read gives what it gives on a backend never written.
C9_RemovedIsNeverWritten ==
  /\ res.op = "removeStore" =>
       /\ Absent(storage, getEntityName(res.name, TRUE))
       /\ View(getStore(storage, res.name))
            = View(getStore(EmptyBackend, res.name))
  /\ res.op = "removeEntity" =>
       /\ Absent(storage, getEntityName(res.name, FALSE))
       /\ View(getAll(storage, res.name)) = View(getAll(EmptyBackend, res.name))
       /\ \A id \in Ids :
            View(getById(storage, res.name, id))
              = View(getById(EmptyBackend, res.name, id))
       /\ \A c \in CriteriaInputs :
            /\ View(findAll(storage, res.name, c))
                 = View(findAll(EmptyBackend, res.name, c))
            /\ View(findOneBy(storage, res.name, c))
                 = View(findOneBy(EmptyBackend, res.name, c))

\* All of uuid()'s identifiers were handed out before the removal, and a store
\* is still present beside the removed entity.
C9_Witness ==
  /\ res.op = "removeEntity"
  /\ nextId > MaxId
  /\ ~Absent(storage, getEntityName("todos", TRUE))

\* C10: updateRecord on a collection holding a record r with the patch's
\* ui_code replaces r by the patch merged over r (patch fields take the patch
\* value, the other fields of r keep theirs); the other records, the record
\* count and the order are unchanged.
C10_UpdateMergesPatch ==
  [][(/\ res'.op = "updateRecord"
      /\ ~NoIdentifier(res'.arg)
      /\ FoundIndex(RecordsOf(storage, res'.name), res'.arg.f["ui_code"]) # 0)
     => LET old == RecordsOf(storage, res'.name)
            new == RecordsOf(storage', res'.name)
            patch == res'.arg.f
            i == FoundIndex(old, patch["ui_code"]) IN
        /\ res'.status = "ok"
        /\ Len(new) = Len(old)
        /\ \A j \in 1..Len(old) : j # i => new[j] = old[j]
        /\ new[i].t = "obj"
        /\ DOMAIN new[i].f = DOMAIN old[i].f \cup DOMAIN patch
        /\ \A p \in DOMAIN patch : new[i].f[p] = patch[p]
        /\ \A p \in DOMAIN old[i].f \ DOMAIN patch : new[i].f[p] = old[i].f[p]
    ]_vars

\* {ui_code: a, x: 1, y: 2} patched with {ui_code: a, y: 5}.
C10_Witness ==
  /\ res.op = "updateRecord"
  /\ res.status = "ok"
  /\ HasProp(res.arg, "y")
  /\ LET l == RecordsOf(storage, res.name)
         i == FoundIndex(l, res.arg.f["ui_code"]) IN
     /\ i # 0
     /\ Len(l) > 1
     /\ l[i] = Obj([ui_code |-> res.arg.f["ui_code"], x |-> 1, y |-> 5])

\* C11: updateRecord with newData lacking a ui_code and deleteRecord with an
\* empty or missing id fail without any backend read or write, so the backend
\* is unchanged.
MissingIdentifier(call) ==
  \/ /\ call.op = "updateRecord"
     /\ (~HasProp(call.arg, "ui_code") \/ call.arg.f["ui_code"] = 0)
  \/ call.op = "deleteRecord" /\ call.id = 0

C11_MissingIdentifierFailsBeforeBackend ==
  [][\A c \in Callers :
       MissingIdentifier(calls'[c]) =>
         /\ calls'[c].pc = "done"
         /\ calls'[c].status = "throw"
         /\ calls'[c].gets = 0
         /\ calls'[c].sets = 0
         /\ (calls'[c] # calls[c] => storage' = storage)
    ]_vars

C11_Witness ==
  /\ calls["A"].op = "updateRecord"
  /\ ~HasProp(calls["A"].arg, "ui_code")
  /\ calls["A"].pc = "done"
  /\ calls["A"].status = "throw"
  /\ Len(RecordsOf(storage, calls["A"].name)) > 0

\* C12: addRecord returns a record whose ui_code is present, non-empty and
\* carried by no record the collection held before the call; hence no two
\* records of a collection share a ui_code.  (uuid() is taken to return a
\* value it has not returned before.)
SharesUiCode(a, b) ==
  HasProp(a, "ui_code") /\ HasProp(b, "ui_code") /\ a.f["ui_code"] = b.f["ui_code"]

C12_AddRecordAssignsFreshUiCode ==
  /\ [](\A e \in EntityNames :
          LET l == RecordsOf(storage, e) IN
          \A i, j \in 1..Len(l) : i # j => ~SharesUiCode(l[i], l[j]))
  /\ [][res'.op = "addRecord" =>
          /\ res'.status = "ok"
          /\ HasProp(res'.val, "ui_code")
          /\ res'.val.f["ui_code"] # 0
          /\ LET old == RecordsOf(storage, res'.name) IN
             \A i \in 1..Len(old) : ~SharesUiCode(old[i], res'.val)
          /\ \E i \in 1..Len(RecordsOf(storage', res'.name)) :
               RecordsOf(storage', res'.name)[i] = res'.val
       ]_vars

\* The caller passed a record carrying the ui_code of a record that is still
\* in the collection.
C12_Witness ==
  /\ res.op = "addRecord"
  /\ res.status = "ok"
  /\ res.arg = Obj([ui_code |-> 1])
  /\ LET l == RecordsOf(storage, res.name) IN
     /\ Len(l) = 3
     /\ l[1] = Obj([ui_code |-> 1, x |-> 1])
     /\ l[3] = res.val

\* C13: updateRecord never changes a ui_code: the record at each position
\* keeps its ui_code (or keeps having none), so the multiset of ui_code
\* values of the collection is what it was.
C13_UpdateKeepsUiCodes ==
  [][res'.op = "updateRecord" =>
       LET old == RecordsOf(storage, res'.name)
           new == RecordsOf(storage', res'.name) IN
       /\ Len(new) = Len(old)
       /\ \A i \in 1..Len(old) :
            /\ HasProp(new[i], "ui_code") <=> HasProp(old[i], "ui_code")
            /\ HasProp(old[i], "ui_code") =>
                 new[i].f["ui_code"] = old[i].f["ui_code"]
    ]_vars

\* A patch was merged into the second of three records.
C13_Witness ==
  /\ res.op = "updateRecord"
  /\ res.status = "ok"
  /\ LET l == RecordsOf(storage, res.name) IN
     /\ Len(l) = 3
     /\ FoundIndex(l, res.arg.f["ui_code"]) = 2
     /\ HasProp(l[2], "y")

\* C14: the key of a store and the key of an entity never coincide, whatever
\* their names; a store method changes at most the store key of its own name
\* and an entity method at most the entity key of its own name, also when the
\* store and the entity have the same name.
C14_NamespacesIsolated ==
  /\ \A n, m \in Names : getEntityName(n, TRUE) # getEntityName(m, FALSE)
  /\ [][\A key \in Keys :
          storage'[key] # storage[key] =>
            \/ /\ res'.op \in StoreOps
               /\ key = STORE_PREFIX \o "_" \o res'.name
            \/ /\ res'.op \in EntityOps
               /\ key = ENTITY_PREFIX \o "_" \o res'.name
       ]_vars

\* A record was added to entity "todos" while store "todos" holds a mapping.
C14_Witness ==
  /\ res.op = "addRecord"
  /\ res.name = SharedName
  /\ getStore(storage, SharedName).val = Obj([lang |-> 1, token |-> 2])
  /\ Len(RecordsOf(storage, SharedName)) = 2

\* C15: right after setStore(n, v) or initStore(n, v), whatever the store held
\* before, getStore(n) succeeds and returns a mapping equal to v.
C15_StoreRoundTrip ==
  res.op \in {"setStore", "initStore"} =>
    View(getStore(storage, res.name)) = <<"ok", res.arg>>

\* initStore has written a two-field mapping to the session store.
C15_Witness ==
  /\ res.op = "initStore"
  /\ res.name = SESSION_STORE
  /\ res.arg = Obj([lang |-> 1, token |-> 2])
  /\ storage[getEntityName(SESSION_STORE, TRUE)] = JSONstringify(res.arg)

\* C16: on an existing store, setStoreKey persists the previous mapping with
\* only the given field set to the value, and removeStoreKey persists the
\* previous mapping with only the given field removed; the store stays
\* present, as the empty mapping when its last field was removed, and every
\* other field keeps its value.
C16_KeyOpsPreserveOtherFields ==
  [][LET old == getStore(storage, res'.name).val
         new == getStore(storage', res'.name).val
         present == storage'[getEntityName(res'.name, TRUE)] # Null IN
     (res'.op \in {"setStoreKey", "removeStoreKey"} /\ old.t = "obj") =>
       /\ res'.status = "ok"
       /\ present
       /\ new.t = "obj"
       /\ \A p \in (DOMAIN old.f) \ {res'.k} :
            HasProp(new, p) /\ new.f[p] = old.f[p]
       /\ res'.op = "setStoreKey" =>
            /\ DOMAIN new.f = DOMAIN old.f \cup {res'.k}
            /\ new.f[res'.k] = res'.id
       /\ res'.op = "removeStoreKey" =>
            DOMAIN new.f = (DOMAIN old.f) \ {res'.k}
    ]_vars

\* removeStoreKey has taken "lang" out of a store that keeps its other field.
C16_Witness ==
  /\ res.op = "removeStoreKey"
  /\ res.status = "ok"
  /\ res.k = "lang"
  /\ getStore(storage, res.name).val = Obj([token |-> 2])

\* A record matches criteria when each criteria field is a field of the record
\* with the same value.
Matches(record, criteria) ==
  \A key \in DOMAIN criteria.f :
    key \in DOMAIN record.f /\ record.f[key] = criteria.f[key]

\* C17: findAll on an existing collection succeeds and returns exactly the
\* stored records that match every criteria field, in their stored order:
\* the j-th record returned is the j-th matching record of the collection.
\* With empty criteria every record matches, so every record is returned.
C17_FindAllIsConjunctiveFilter ==
  LET d == storage[getEntityName(res.name, FALSE)] IN
  (res.op = "findAll" /\ d.t = "str" /\ d.l[1].t = "arr") =>
    LET stored == d.l[1].l
        hits == {i \in 1..Len(stored) : Matches(stored[i], res.arg)}
        nth(j) == CHOOSE i \in hits : Cardinality({m \in hits : m < i}) = j - 1
    IN /\ res.status = "ok"
       /\ res.val.t = "arr"
       /\ Len(res.val.l) = Cardinality(hits)
       /\ \A j \in 1..Len(res.val.l) : res.val.l[j] = stored[nth(j)]
       /\ res.arg = Obj(NoProps) => res.val.l = stored

\* findAll with {x: 1} returned the first and third of three records, the
\* second not matching.
C17_Witness ==
  /\ res.op = "findAll"
  /\ res.status = "ok"
  /\ res.arg = Obj([x |-> 1])
  /\ LET stored == RecordsOf(storage, res.name) IN
     /\ Len(stored) = 3
     /\ ~Matches(stored[2], res.arg)
     /\ res.val.l = <<stored[1], stored[3]>>

\* C18: a call has no partial effect.  A call that settles with a failure,
\* whether AsyncStorage rejected its read or its write or one of its own steps
\* threw, has written nothing; the backend changes only in the step that
\* serves a call's write, and the call whose write was served settles with
\* success.  The backend is therefore the same when a failed call settles as
\* when it was invoked.
C18_NoPartialEffect ==
  /\ [](\A c \in Callers :
          (calls[c].pc = "done" /\ calls[c].status = "throw") =>
            calls[c].sets = 0)
  /\ [][\A c \in Callers :
          calls'[c].sets > calls[c].sets =>
            calls'[c].pc = "done" /\ calls'[c].status = "ok"]_vars
  /\ [][storage' # storage =>
          \E c \in Callers :
            /\ calls[c].pc = "set"
            /\ calls'[c].pc = "done"
            /\ calls'[c].status = "ok"]_vars

\* addRecord has read the collection, issued its write and failed because
\* AsyncStorage rejected the write; the collection is as before the call.
C18_Witness ==
  LET call == calls["A"] IN
  /\ call.op = "addRecord"
  /\ call.pc = "done"
  /\ call.status = "throw"
  /\ call.gets = 1
  /\ call.pending =
       JSONstringify(Arr(<<Obj([ui_code |-> 1]), Obj([ui_code |-> 2])>>))
  /\ storage[WriteKey(call)] = JSONstringify(Arr(<<Obj([ui_code |-> 1])>>))

\* C19: read-modify-write is not atomic.  A call of addRecord or setStoreKey
\* whose write is served with no other write to the same key since its read
\* (as when the calls run one after the other) succeeds and keeps what was
\* persisted: the collection is the previous one with the new record
\* appended, the store the previous one with the field set.  A call whose read
\* precedes another call's write to the same key still succeeds when its own
\* write is served, and that write persists what it computed from its read.
C19_SequentialWritesKeepBoth ==
  [][\A c \in Callers :
       LET call == calls[c] IN
       (call.pc = "set" /\ calls'[c].pc = "done") =>
         /\ (call.op = "addRecord" /\ ~call.stale) =>
              /\ calls'[c].status = "ok"
              /\ RecordsOf(storage', call.name) =
                   Append(RecordsOf(storage, call.name),
                          SetProp(call.arg, "ui_code", call.id))
         /\ (call.op = "setStoreKey" /\ ~call.stale) =>
              /\ calls'[c].status = "ok"
              /\ getStore(storage', call.name).val =
                   SetProp(getStore(storage, call.name).val, call.k, call.id)
         /\ (call.op \in {"addRecord", "setStoreKey"} /\ call.stale) =>
              /\ calls'[c].status = "ok"
              /\ storage'[WriteKey(call)] = call.pending
    ]_vars

\* A lost update: both callers' addRecord calls have returned successfully,
\* each having read the empty backend before the other wrote, and the
\* collection holds one record only.
C19_Witness ==
  /\ \A c \in Callers :
       /\ calls[c].op = "addRecord"
       /\ calls[c].pc = "done"
       /\ calls[c].status = "ok"
       /\ calls[c].sets = 1
  /\ calls["A"].val # calls["B"].val
  /\ nextId = 3
  /\ Len(RecordsOf(storage, "todos")) = 1

\* C20: with SessionService the only writer of the session store, whatever
\* the backend held at construction, after every SessionService method that
\* has completed the cached session getAll() returns equals the mapping
\* persisted in the session store.
C20_SessionCacheCoherent ==
  (res.op \in {"initialize", "read", "write", "writeAll", "remove", "clear"}
   /\ res.status = "ok") =>
    sessionGetAll(session) = getStore(storage, SESSION_STORE).val

====
